---------------------------- MODULE Spec2Model ----------------------------
(***************************************************************************)
(* A model of burnell's icrypto package (src/src/icrypto/pulsar-jwt.go):   *)
(* RSA key pair loading and export, key file format detection, JWT issue   *)
(* and verification, and the expiry duration parser.                       *)
(*                                                                         *)
(* Byte strings are sequences of 0..255, text is a sequence of one         *)
(* character strings, and 64-bit quantities (time.Duration, int) are       *)
(* naturals held as little-endian sequences of base-256 limbs, so that     *)
(* wrap-around and saturation happen at the width the program has.         *)
(***************************************************************************)
EXTENDS Integers, Sequences, FiniteSets, TLC

VARIABLES
    now,          \* the wall clock, in ticks of 1/TicksPerSecond second
    token,        \* the token most recently issued by GenerateToken, or NoToken
    files,        \* the file system: path -> bytes, or NoFile
    openHandles,  \* number of os.File handles opened and not closed
    keys,         \* the RSAKeyPair the process holds (jwtRsaKeys), or NoKeys
    input,        \* the arguments of the call under test (pure functions)
    last          \* the most recent call: its operation, arguments and results

vars == <<now, token, files, openHandles, keys, input, last>>

(***************************************************************************)
(* Bounds of the model.                                                    *)
(***************************************************************************)
TicksPerSecond == 2
MaxTicks == 6
MaxAdvance == 1
MaxDigits == 2
MaxOpenFiles == 5

(***************************************************************************)
(* Program constants.                                                      *)
(***************************************************************************)
expireOffset == 3600
bitSize == 2048

(***************************************************************************)
(* Naturals of any size: little-endian base-256 limbs, no high zero limb.  *)
(***************************************************************************)
RECURSIVE NatOfInt(_)
NatOfInt(n) == IF n = 0 THEN <<>> ELSE <<n % 256>> \o NatOfInt(n \div 256)

RECURSIVE NatTrim(_)
NatTrim(a) ==
    IF a # <<>> /\ a[Len(a)] = 0 THEN NatTrim(SubSeq(a, 1, Len(a) - 1)) ELSE a

Limb(a, i) == IF i <= Len(a) THEN a[i] ELSE 0

MaxOf(x, y) == IF x >= y THEN x ELSE y

RECURSIVE NatAddFrom(_, _, _, _)
NatAddFrom(a, b, i, c) ==
    IF i > MaxOf(Len(a), Len(b))
    THEN (IF c = 0 THEN <<>> ELSE <<c>>)
    ELSE LET s == Limb(a, i) + Limb(b, i) + c
         IN  <<s % 256>> \o NatAddFrom(a, b, i + 1, s \div 256)

NatAdd(a, b) == NatTrim(NatAddFrom(a, b, 1, 0))

RECURSIVE NatLessFrom(_, _, _)
NatLessFrom(a, b, i) ==
    IF i = 0 THEN FALSE
    ELSE IF Limb(a, i) # Limb(b, i) THEN Limb(a, i) < Limb(b, i)
    ELSE NatLessFrom(a, b, i - 1)

NatLess(a, b) == NatLessFrom(a, b, MaxOf(Len(a), Len(b)))

NatLeq(a, b) == a = b \/ NatLess(a, b)

RECURSIVE NatSubFrom(_, _, _, _)
NatSubFrom(a, b, i, borrow) ==
    IF i > Len(a) THEN <<>>
    ELSE LET d == a[i] - Limb(b, i) - borrow
         IN  IF d < 0 THEN <<d + 256>> \o NatSubFrom(a, b, i + 1, 1)
                      ELSE <<d>> \o NatSubFrom(a, b, i + 1, 0)

\* a - b for a >= b
NatSub(a, b) == NatTrim(NatSubFrom(a, b, 1, 0))

RECURSIVE NatMulSmallFrom(_, _, _, _)
NatMulSmallFrom(a, k, i, c) ==
    IF i > Len(a) THEN NatOfInt(c)
    ELSE LET s == a[i] * k + c
         IN  <<s % 256>> \o NatMulSmallFrom(a, k, i + 1, s \div 256)

\* a * k for an integer 0 <= k < 2^22
NatMulSmall(a, k) == NatTrim(NatMulSmallFrom(a, k, 1, 0))

RECURSIVE NatMulFrom(_, _, _)
NatMulFrom(a, b, i) ==
    IF i > Len(b) THEN <<>>
    ELSE NatAdd(NatMulSmall(a, b[i]),
                LET r == NatMulFrom(a, b, i + 1)
                IN  IF r = <<>> THEN <<>> ELSE <<0>> \o r)

NatMul(a, b) == NatTrim(NatMulFrom(a, b, 1))

RECURSIVE NatDivSmallFrom(_, _, _, _)
NatDivSmallFrom(a, k, i, r) ==
    IF i = 0 THEN <<>>
    ELSE LET x == r * 256 + a[i]
         IN  NatDivSmallFrom(a, k, i - 1, x % k) \o <<x \div k>>

\* floor(a / k) for an integer 0 < k < 2^22
NatDivSmall(a, k) == NatTrim(NatDivSmallFrom(a, k, Len(a), 0))

\* 2^63 and 2^64
Two63 == <<0, 0, 0, 0, 0, 0, 0, 128>>
Two64 == <<0, 0, 0, 0, 0, 0, 0, 0, 1>>
MaxInt64 == NatSub(Two63, <<1>>)

(***************************************************************************)
(* int64 / time.Duration: a sign and a magnitude.  Go's multiplication     *)
(* wraps modulo 2^64 and the result is read as two's complement.           *)
(***************************************************************************)
Int64(neg, mag) == [neg |-> neg /\ mag # <<>>, mag |-> mag]

Low64(a) == NatTrim(SubSeq(a, 1, IF Len(a) < 8 THEN Len(a) ELSE 8))

\* the int64 whose two's complement bit pattern is the low 64 bits of a
WrapInt64(a) ==
    LET u == Low64(a)
    IN  IF NatLess(u, Two63) THEN Int64(FALSE, u)
                             ELSE Int64(TRUE, NatSub(Two64, u))

\* x * k in int64 arithmetic, x >= 0 and k > 0 given as naturals

IsPositive(d) == ~d.neg /\ d.mag # <<>>

(***************************************************************************)
(* package time                                                            *)
(***************************************************************************)
Second == NatOfInt(1000000000)
Minute == NatMulSmall(Second, 60)
Hour == NatMulSmall(Minute, 60)


(***************************************************************************)
(* Text: sequences of one-character strings.                               *)
(***************************************************************************)
Digits == <<"0", "1", "2", "3", "4", "5", "6", "7", "8", "9">>
UpperLetters == <<"A", "B", "C", "D", "E", "F", "G", "H", "I", "J", "K", "L", "M",
                  "N", "O", "P", "Q", "R", "S", "T", "U", "V", "W", "X", "Y", "Z">>
LowerLetters == <<"a", "b", "c", "d", "e", "f", "g", "h", "i", "j", "k", "l", "m",
                  "n", "o", "p", "q", "r", "s", "t", "u", "v", "w", "x", "y", "z">>

IsDigit(c) == \E i \in 1..10 : Digits[i] = c
DigitVal(c) == (CHOOSE i \in 1..10 : Digits[i] = c) - 1

ToLowerChar(c) ==
    IF \E i \in 1..26 : UpperLetters[i] = c
    THEN LowerLetters[CHOOSE i \in 1..26 : UpperLetters[i] = c]
    ELSE c

\* strings.ToLower
ToLower(s) == [i \in 1..Len(s) |-> ToLowerChar(s[i])]

RECURSIVE TrimLeft(_)
TrimLeft(s) == IF s # <<>> /\ s[1] = " " THEN TrimLeft(Tail(s)) ELSE s

RECURSIVE TrimRight(_)
TrimRight(s) ==
    IF s # <<>> /\ s[Len(s)] = " " THEN TrimRight(SubSeq(s, 1, Len(s) - 1)) ELSE s

\* strings.TrimSpace
TrimSpace(s) == TrimRight(TrimLeft(s))

\* the value of a string of decimal digits, from digit i on, acc the value so
\* far (the test on nx makes TLC evaluate it before the next step)
RECURSIVE DecimalFrom(_, _, _)
DecimalFrom(ds, i, acc) ==
    IF i > Len(ds) THEN acc
    ELSE LET nx == NatAdd(NatMulSmall(acc, 10), NatOfInt(DigitVal(ds[i])))
         IN  IF Len(nx) >= 0 THEN DecimalFrom(ds, i + 1, nx) ELSE <<>>

DecimalValue(ds) == DecimalFrom(ds, 1, <<>>)

\* strconv.Atoi on a string of decimal digits: a range error above 2^63 - 1
Atoi(ds) ==
    LET n == DecimalValue(ds)
    IN  IF NatLeq(n, MaxInt64) THEN [ok |-> TRUE, n |-> n]
                               ELSE [ok |-> FALSE, n |-> MaxInt64]

\* regexp ^[1-9][0-9]*<suffix>$
MatchCount(s, suffix) ==
    /\ Len(s) >= 2
    /\ IsDigit(s[1]) /\ s[1] # "0"
    /\ \A i \in 2..(Len(s) - 1) : IsDigit(s[i])
    /\ s[Len(s)] = suffix

(***************************************************************************)
(* The duration parser.                                                    *)
(***************************************************************************)
DurationError == [dur |-> Int64(FALSE, <<>>), err |-> TRUE]
DurationOk(d) == [dur |-> d, err |-> FALSE]

\* time.Duration(n) * 24 * time.Hour
Days(n) == WrapInt64(NatMul(Low64(NatMulSmall(n, 24)), Hour))

\* time.Duration(n) * 365 * 24 * time.Hour
Years(n) ==
    WrapInt64(NatMul(Low64(NatMulSmall(Low64(NatMulSmall(n, 365)), 24)), Hour))

ValidateDurationPeriod(duration) ==
    LET count == Atoi(SubSeq(duration, 1, Len(duration) - 1))
    IN  IF MatchCount(duration, "d")
        THEN (IF count.ok THEN DurationOk(Days(count.n)) ELSE DurationError)
        ELSE IF MatchCount(duration, "y")
        THEN (IF count.ok THEN DurationOk(Years(count.n)) ELSE DurationError)
        ELSE DurationError

\* time.ParseDuration's unit table, <<>> for an unknown unit
UnitValue(u) ==
    CASE u = <<"n", "s">> -> <<1>>
      [] u = <<"u", "s">> -> NatOfInt(1000)
      [] u = <<"m", "s">> -> NatOfInt(1000000)
      [] u = <<"s">> -> Second
      [] u = <<"m">> -> Minute
      [] u = <<"h">> -> Hour
      [] OTHER -> <<>>

\* the length of the longest prefix of s of digits (digits = TRUE) or of
\* other characters
RECURSIVE Leading(_, _)
Leading(s, digits) ==
    IF s # <<>> /\ IsDigit(s[1]) = digits THEN 1 + Leading(Tail(s), digits) ELSE 0


\* time.ParseDuration's loop over "<digits><unit>" groups, d the sum so far;
\* the result is the magnitude, or err.  (No input of the model holds a ".",
\* so the fraction branch is not taken.)
RECURSIVE ParseGroups(_, _)
ParseGroups(s, d) ==
    IF s = <<>> THEN [err |-> FALSE, mag |-> d]
    ELSE LET nd == Leading(s, TRUE)
             v == DecimalValue(SubSeq(s, 1, nd))
             rest == SubSeq(s, nd + 1, Len(s))
             nu == Leading(rest, FALSE)
             u == SubSeq(rest, 1, nu)
         IN  IF nd = 0 \/ NatLess(Two63, v) \/ nu = 0 \/ UnitValue(u) = <<>>
             THEN [err |-> TRUE, mag |-> <<>>]
             ELSE LET x == NatMul(v, UnitValue(u))
                      sum == NatAdd(d, x)
                  IN  IF NatLess(Two63, x) \/ NatLess(Two63, sum)
                      THEN [err |-> TRUE, mag |-> <<>>]
                      ELSE ParseGroups(SubSeq(rest, nu + 1, Len(rest)), sum)

\* time.ParseDuration
ParseDuration(orig) ==
    LET signed == orig # <<>> /\ orig[1] \in {"-", "+"}
        neg == orig # <<>> /\ orig[1] = "-"
        s == IF signed THEN Tail(orig) ELSE orig
        g == ParseGroups(s, <<>>)
    IN  IF s = <<"0">> THEN DurationOk(Int64(FALSE, <<>>))
        ELSE IF s = <<>> \/ g.err THEN DurationError
        ELSE IF neg THEN DurationOk(Int64(TRUE, g.mag))
        ELSE IF NatLess(MaxInt64, g.mag) THEN DurationError
        ELSE DurationOk(Int64(FALSE, g.mag))

NoMethod == "nil"
SigningMethods == {"RS256", "RS384", "RS512", "HS256", "HS384", "HS512",
                   "ES256", "ES384", "ES512", "PS256", "PS384", "PS512", "none"}

Chars(m) ==
    CASE m = "RS256" -> <<"r", "s", "2", "5", "6">>
      [] m = "RS384" -> <<"r", "s", "3", "8", "4">>
      [] m = "RS512" -> <<"r", "s", "5", "1", "2">>
      [] m = "HS256" -> <<"h", "s", "2", "5", "6">>
      [] m = "HS384" -> <<"h", "s", "3", "8", "4">>
      [] m = "HS512" -> <<"h", "s", "5", "1", "2">>
      [] m = "ES256" -> <<"e", "s", "2", "5", "6">>
      [] m = "ES384" -> <<"e", "s", "3", "8", "4">>
      [] m = "ES512" -> <<"e", "s", "5", "1", "2">>
      [] m = "PS256" -> <<"p", "s", "2", "5", "6">>
      [] m = "PS384" -> <<"p", "s", "3", "8", "4">>
      [] m = "PS512" -> <<"p", "s", "5", "1", "2">>
      [] m = "none" -> <<"n", "o", "n", "e">>

\* SigMethod converts a signing method name to a signing method
SigMethod(algo) ==
    LET a == ToLower(algo)
    IN  IF \E m \in SigningMethods : Chars(m) = a
        THEN CHOOSE m \in SigningMethods : Chars(m) = a
        ELSE NoMethod

ValidateClaims(expiryDuration, signingMethod) ==
    LET dur == TrimSpace(ToLower(expiryDuration))
        period == ValidateDurationPeriod(dur)
        parsed == IF period.err THEN ParseDuration(dur) ELSE period
        sigMethod == SigMethod(signingMethod)
    IN  IF parsed.err \/ sigMethod = NoMethod
        THEN [dur |-> Int64(FALSE, <<>>), method |-> NoMethod, err |-> TRUE]
        ELSE [dur |-> parsed.dur, method |-> sigMethod, err |-> FALSE]


(***************************************************************************)
(* State shared by the specifications below.                               *)
(***************************************************************************)
Absent == [has |-> FALSE, type |-> "", n |-> 0, s |-> ""]
Str(s) == [has |-> TRUE, type |-> "string", n |-> 0, s |-> s]
Num(n) == [has |-> TRUE, type |-> "float64", n |-> n, s |-> ""]

MapClaims(sub, iat, exp, nbf) == [sub |-> sub, iat |-> iat, exp |-> exp, nbf |-> nbf]

NoSignature == [method |-> "", signer |-> 0, over |-> MapClaims(Absent, Absent, Absent, Absent)]
NoToken == [kind |-> "none", alg |-> "", claims |-> NoSignature.over, sig |-> NoSignature]
Garbage == [kind |-> "garbage", alg |-> "", claims |-> NoSignature.over, sig |-> NoSignature]

NoFile == <<-1>>
Paths == {"private.key", "public.key"}
Idle == [op |-> "none"]
NoInput == [for |-> "none"]
NoKeys == [held |-> FALSE]

InitIdle ==
    /\ now = 0
    /\ token = NoToken
    /\ files = [p \in Paths |-> NoFile]
    /\ openHandles = 0
    /\ keys = NoKeys
    /\ last = Idle

(***************************************************************************)
(* SpecDuration: the duration parser applied to duration strings.          *)
(***************************************************************************)
DigitSet == {Digits[i] : i \in 1..10}
BoundaryDurations ==
    { <<"1", "0", "6", "7", "5", "1", "d">>,
      <<"1", "0", "6", "7", "5", "2", "d">>,
      <<"2", "9", "2", "y">>,
      <<"2", "9", "3", "y">>,
      <<"2", "8", "1", "4", "7", "4", "9", "7", "6", "7", "1", "0", "6", "5", "6", "d">>,
      <<"9", "2", "2", "3", "3", "7", "2", "0", "3", "6", "8", "5", "4", "7", "7",
        "5", "8", "0", "8", "d">>,
      <<"a", "b", "c">>, <<>>, <<"0">>, <<"d">>,
      <<" ", "7", "D", " ">>, <<"2", "Y">>,
      <<"-", "5", "m">>, <<"1", "h", "3", "0", "m">>, <<"9", "0", "m", "s">>,
      <<"7", "d", "d">>, <<"7", "d", "1", "h">> }
DurationInputs ==
    {Append(c, u) : c \in UNION {[1..n -> DigitSet] : n \in 1..MaxDigits},
                    u \in {"d", "y", "m", "h", "s"}}
    \cup BoundaryDurations
MethodInputs ==
    { <<"R", "S", "2", "5", "6">>, <<"h", "s", "5", "1", "2">>,
      <<"n", "o", "n", "e">>, <<"r", "s", "1">> }

InitDuration ==
    /\ InitIdle
    /\ input \in [for : {"duration"}, text : DurationInputs, method : MethodInputs]

CallValidateDurationPeriod ==
    /\ last = Idle
    /\ last' = [op |-> "ValidateDurationPeriod", duration |-> input.text,
                out |-> ValidateDurationPeriod(input.text)]
    /\ UNCHANGED <<now, token, files, openHandles, keys, input>>

CallValidateClaims ==
    /\ last = Idle
    /\ last' = [op |-> "ValidateClaims", expiryDuration |-> input.text,
                signingMethod |-> input.method,
                out |-> ValidateClaims(input.text, input.method)]
    /\ UNCHANGED <<now, token, files, openHandles, keys, input>>

NextDuration == CallValidateDurationPeriod \/ CallValidateClaims

SpecDuration == InitDuration /\ [][NextDuration]_vars

\* "<n>" is a positive decimal integer without leading zero
IsCount(ds) ==
    /\ Len(ds) >= 1
    /\ \A i \in 1..Len(ds) : ds[i] \in DigitSet
    /\ ds[1] # "0"

\* the count in front of a one-letter suffix
CountOf(s) == SubSeq(s, 1, Len(s) - 1)
HasSuffix(s, u) == Len(s) >= 2 /\ s[Len(s)] = u /\ IsCount(CountOf(s))

\* the string the duration parser of the last call worked on
ParsedText ==
    IF last.op = "ValidateClaims" THEN TrimSpace(ToLower(last.expiryDuration))
    ELSE last.duration

\* the last call's duration result: ValidateClaims fails as a whole for an
\* unknown signing method, whatever the duration
DurationDecided ==
    \/ last.op = "ValidateDurationPeriod"
    \/ last.op = "ValidateClaims" /\ SigMethod(last.signingMethod) # NoMethod

\* C4 (as claimed): every "<n>d" is exactly n x 24 hours and every "<n>y"
\* exactly n x 365 x 24 hours, each strictly positive in the 64-bit
\* nanosecond representation; "abc" is an error; "90m" is 90 minutes.
C4_SuffixDurationsExactAndPositive ==
    DurationDecided =>
        /\ HasSuffix(ParsedText, "d") =>
              /\ ~last.out.err
              /\ IsPositive(last.out.dur)
              /\ last.out.dur.mag =
                     NatMul(DecimalValue(CountOf(ParsedText)), NatMulSmall(Hour, 24))
        /\ HasSuffix(ParsedText, "y") =>
              /\ ~last.out.err
              /\ IsPositive(last.out.dur)
              /\ last.out.dur.mag =
                     NatMul(DecimalValue(CountOf(ParsedText)),
                            NatMulSmall(Hour, 365 * 24))
        /\ (last.op = "ValidateClaims" /\ ParsedText = <<"a", "b", "c">>) =>
              last.out.err
        /\ (last.op = "ValidateClaims" /\ ParsedText = <<"9", "0", "m">>) =>
              /\ ~last.out.err
              /\ last.out.dur = Int64(FALSE, NatMulSmall(Minute, 90))

\* C4 on the counts whose product fits 63 bits: there the parser is exact
C4_SmallCountsExact ==
    DurationDecided =>
        /\ (HasSuffix(ParsedText, "d")
              /\ NatLeq(DecimalValue(CountOf(ParsedText)), NatOfInt(106751))) =>
              /\ ~last.out.err
              /\ last.out.dur =
                     Int64(FALSE, NatMul(DecimalValue(CountOf(ParsedText)),
                                         NatMulSmall(Hour, 24)))
        /\ (HasSuffix(ParsedText, "y")
              /\ NatLeq(DecimalValue(CountOf(ParsedText)), NatOfInt(292))) =>
              /\ ~last.out.err
              /\ last.out.dur =
                     Int64(FALSE, NatMul(DecimalValue(CountOf(ParsedText)),
                                         NatMulSmall(Hour, 365 * 24)))


(***************************************************************************)
(* Format detection: fileFormat on the first bytes of a key file.          *)
(* A uint32 is held as two 16-bit halves <<high, low>>.                    *)
(***************************************************************************)
RECURSIVE BitAnd(_, _)
BitAnd(x, y) ==
    IF x = 0 \/ y = 0 THEN 0
    ELSE (x % 2) * (y % 2) + 2 * BitAnd(x \div 2, y \div 2)

\* binary.BigEndian.Uint32
BigEndianUint32(data) == <<data[1] * 256 + data[2], data[3] * 256 + data[4]>>

And32(x, mask) == <<BitAnd(x[1], mask[1]), BitAnd(x[2], mask[2])>>


\* the classification of fileFormat, once the 4 bytes are read
\* (a magic number is its two 16-bit halves: 0x2D2D2D2D is <<11565, 11565>>,
\* 0x434f4e4e <<17231, 20046>>, 0xFFFF0000 <<65535, 0>>, 0x30820000
\* <<12418, 0>>, 0x0000FF00 <<0, 65280>>, 0x0300 <<0, 768>>)
\* (MagicFormatMutant: the same with the DER test masked by 0xFFFF0000)
MagicFormatMutant(magic) ==
    IF magic = <<11565, 11565>> \/ magic = <<17231, 20046>> THEN "PEM"
    ELSE IF And32(magic, <<65535, 0>>) = <<12418, 0>>
    THEN (IF And32(magic, <<65535, 0>>) = <<0, 768>> THEN "DER" ELSE "PKCS12")
    ELSE "undetermined"
MagicFormat(magic) ==
    IF magic = <<11565, 11565>> \/ magic = <<17231, 20046>> THEN "PEM"
    ELSE IF And32(magic, <<65535, 0>>) = <<12418, 0>>
    THEN (IF And32(magic, <<0, 65280>>) = <<0, 768>> THEN "DER" ELSE "PKCS12")
    ELSE "undetermined"

\* fileFormat(file): os.Open, Peek(4), classify.  The handle it opens is not
\* closed on any path.  limit: no handle is left to open the file with.
fileFormat(content, limit) ==
    IF content = NoFile \/ limit
    THEN [format |-> "", err |-> "open", opened |-> 0]
    ELSE IF Len(content) < 4
    THEN [format |-> "", err |-> "peek", opened |-> 1]
    ELSE LET f == MagicFormat(BigEndianUint32(content))
         IN  IF f = "undetermined"
             THEN [format |-> "", err |-> "undermined format", opened |-> 1]
             ELSE [format |-> f, err |-> "", opened |-> 1]

(***************************************************************************)
(* SpecFormat: fileFormat applied to files with every 4-byte prefix over   *)
(* ten byte values, and to files shorter than 4 bytes.                     *)
(***************************************************************************)
FormatInputs ==
    [1..4 -> {0, 1, 2, 3, 45, 48, 67, 78, 79, 130}] \cup {<<45, 45, 45>>, <<>>}

InitFormat ==
    /\ InitIdle
    /\ input \in [for : {"format"}, data : FormatInputs]

CallFileFormat ==
    /\ last = Idle
    /\ LET r == fileFormat(input.data, FALSE)
       IN  /\ last' = [op |-> "fileFormat", data |-> input.data, out |-> r]
           /\ openHandles' = openHandles + r.opened
    /\ UNCHANGED <<now, token, files, keys, input>>

NextFormat == CallFileFormat

SpecFormat == InitFormat /\ [][NextFormat]_vars

\* the claim's conditions on the 4 bytes b of the prefix
IsDashes(b) == b = <<45, 45, 45, 45>>
IsCONN(b) == b = <<67, 79, 78, 78>>
TopIs3082(b) == b[1] = 48 /\ b[2] = 130
ThirdIs03(b) == b[3] = 3

\* C7: fileFormat returns PEM for 0x2D2D2D2D and 0x434F4E4E; otherwise DER
\* when the top 16 bits are 0x3082 and bits 15-8 are 0x03; otherwise PKCS12
\* when the top 16 bits are 0x3082; and an undetermined-format error for
\* every other value.  30 82 03 00 is DER and 30 82 01 02 is PKCS12.
C7_FormatTable ==
    (last.op = "fileFormat" /\ Len(last.data) = 4) =>
        LET b == last.data
            f == last.out.format
            e == last.out.err
        IN  /\ (IsDashes(b) \/ IsCONN(b)) => (f = "PEM" /\ e = "")
            /\ (~IsDashes(b) /\ ~IsCONN(b) /\ TopIs3082(b) /\ ThirdIs03(b)) =>
                   (f = "DER" /\ e = "")
            /\ (~IsDashes(b) /\ ~IsCONN(b) /\ TopIs3082(b) /\ ~ThirdIs03(b)) =>
                   (f = "PKCS12" /\ e = "")
            /\ (~IsDashes(b) /\ ~IsCONN(b) /\ ~TopIs3082(b)) =>
                   (f = "" /\ e = "undermined format")
            /\ b = <<48, 130, 3, 0>> => f = "DER"
            /\ b = <<48, 130, 1, 2>> => f = "PKCS12"

\* each of the four outcomes is reached and was computed on a 4-byte prefix
C7_Witness ==
    /\ last.op = "fileFormat"
    /\ last.data = <<48, 130, 3, 0>>
    /\ last.out.format = "DER"


(***************************************************************************)
(* Keys and their encodings.  An RSA key is its identity and its size; the *)
(* private key [id, bits] has the public half [id, bits].  A DER encoding  *)
(* is the SEQUENCE header with the length the real encoding of a key of    *)
(* that size has, followed by a short body that stands for the rest.       *)
(***************************************************************************)
AlgRSA == <<1>>
AlgEC == <<2>>

PrivateKeyOf(id, bits) == [kind |-> "private", alg |-> AlgRSA, id |-> id, bits |-> bits]

\* &privateKey.PublicKey
PublicHalf(priv) == [priv EXCEPT !.kind = "public"]

\* the size of an ASN.1 element with n bytes of content
TLV(n) == n + (IF n < 128 THEN 2 ELSE IF n < 256 THEN 3 ELSE 4)

\* content length of SubjectPublicKeyInfo / PrivateKeyInfo of an RSA key
EncodedLen(kind, bits) ==
    LET nb == bits \div 8
        algorithm == 15
        modulus == TLV(nb + 1)
        exponent == 5
        rsaPublic == TLV(modulus + exponent)
        rsaPrivate == TLV(3 + modulus + exponent + TLV(nb)
                          + 2 * TLV(nb \div 2 + 1) + 3 * TLV(nb \div 2))
    IN  IF kind = "public" THEN algorithm + TLV(1 + rsaPublic)
                           ELSE 3 + algorithm + TLV(rsaPrivate)

\* the SEQUENCE tag and DER length of n content bytes
DERHeader(n) ==
    IF n < 128 THEN <<48, n>>
    ELSE IF n < 256 THEN <<48, 129, n>>
    ELSE <<48, 130, n \div 256, n % 256>>

DERBody(key) ==
    (IF key.kind = "private" THEN <<2, 1, 0>> ELSE <<>>)
    \o <<48, 13>> \o key.alg
    \o <<(IF key.kind = "private" THEN 4 ELSE 3), key.id, key.bits \div 256>>

\* x509.MarshalPKCS8PrivateKey / x509.MarshalPKIXPublicKey
MarshalKey(key) == DERHeader(EncodedLen(key.kind, key.bits)) \o DERBody(key)

\* the length of the DER header at the front of data, 0 when there is none
HeaderLen(data) ==
    IF Len(data) < 2 \/ data[1] # 48 THEN 0
    ELSE IF data[2] < 128 THEN 2
    ELSE IF data[2] = 129 /\ Len(data) >= 3 THEN 3
    ELSE IF data[2] = 130 /\ Len(data) >= 4 THEN 4
    ELSE 0

DeclaredLen(data) ==
    CASE HeaderLen(data) = 2 -> data[2]
      [] HeaderLen(data) = 3 -> data[3]
      [] HeaderLen(data) = 4 -> data[3] * 256 + data[4]

\* x509.ParsePKCS8PrivateKey / x509.ParsePKIXPublicKey: the key that data
\* encodes, when data is a DER header of minimal form followed by the body
\* of a key of that kind and of the size the header's length goes with
ParseDER(data, kind) ==
    LET h == HeaderLen(data)
        body == SubSeq(data, h + 1, Len(data))
        lead == IF kind = "private" THEN <<2, 1, 0, 48, 13>> ELSE <<48, 13>>
        n == Len(lead)
        key == [kind |-> kind, alg |-> <<body[n + 1]>>, id |-> body[n + 3],
                bits |-> body[n + 4] * 256]
    IN  IF /\ h > 0
           /\ Len(body) = n + 4
           /\ SubSeq(body, 1, n) = lead
           /\ <<body[n + 1]>> \in {AlgRSA, AlgEC}
           /\ body[n + 2] = (IF kind = "private" THEN 4 ELSE 3)
           /\ body[n + 4] > 0
           /\ DeclaredLen(data) = EncodedLen(kind, body[n + 4] * 256)
           /\ SubSeq(data, 1, h) = DERHeader(DeclaredLen(data))
        THEN [err |-> "", key |-> key]
        ELSE [err |-> "asn1", key |-> NoKeys]

\* the type assertion of the parsed key to an RSA private / public key
RequireRSA(r) ==
    IF r.err # "" THEN r
    ELSE IF r.key.alg # AlgRSA THEN [err |-> "type", key |-> NoKeys]
    ELSE r

ParseX509PKCS8PrivateKey(data) == RequireRSA(ParseDER(data, "private"))

ParseX509PKIXPublicKey(data) == RequireRSA(ParseDER(data, "public"))

(***************************************************************************)
(* encoding/base64 (StdEncoding) and encoding/pem, on bytes.               *)
(***************************************************************************)
Base64Char(v) ==
    IF v < 26 THEN 65 + v
    ELSE IF v < 52 THEN 97 + (v - 26)
    ELSE IF v < 62 THEN 48 + (v - 52)
    ELSE IF v = 62 THEN 43 ELSE 47

IsBase64Char(c) == \E v \in 0..63 : Base64Char(v) = c
Base64Val(c) == CHOOSE v \in 0..63 : Base64Char(v) = c

RECURSIVE Base64Encode(_)
Base64Encode(b) ==
    IF Len(b) = 0 THEN <<>>
    ELSE IF Len(b) = 1
    THEN <<Base64Char(b[1] \div 4), Base64Char((b[1] % 4) * 16), 61, 61>>
    ELSE IF Len(b) = 2
    THEN <<Base64Char(b[1] \div 4),
           Base64Char((b[1] % 4) * 16 + b[2] \div 16),
           Base64Char((b[2] % 16) * 4), 61>>
    ELSE <<Base64Char(b[1] \div 4),
           Base64Char((b[1] % 4) * 16 + b[2] \div 16),
           Base64Char((b[2] % 16) * 4 + b[3] \div 64),
           Base64Char(b[3] % 64)>> \o Base64Encode(SubSeq(b, 4, Len(b)))

\* whether c is well-formed padded base64 text
RECURSIVE IsBase64(_)
IsBase64(c) ==
    IF Len(c) = 0 THEN TRUE
    ELSE IF Len(c) < 4 THEN FALSE
    ELSE IF Len(c) = 4
    THEN /\ IsBase64Char(c[1]) /\ IsBase64Char(c[2])
         /\ \/ IsBase64Char(c[3]) /\ IsBase64Char(c[4])
            \/ IsBase64Char(c[3]) /\ c[4] = 61
            \/ c[3] = 61 /\ c[4] = 61
    ELSE /\ \A i \in 1..4 : IsBase64Char(c[i])
         /\ IsBase64(SubSeq(c, 5, Len(c)))

RECURSIVE Base64Decode(_)
Base64Decode(c) ==
    IF Len(c) = 0 THEN <<>>
    ELSE LET v1 == Base64Val(c[1])
             v2 == Base64Val(c[2])
             first == <<v1 * 4 + v2 \div 16>>
         IN  IF c[3] = 61 THEN first
             ELSE LET v3 == Base64Val(c[3])
                      second == <<(v2 % 16) * 16 + v3 \div 4>>
                  IN  IF c[4] = 61 THEN first \o second
                      ELSE first \o second
                           \o <<(v3 % 4) * 64 + Base64Val(c[4])>>
                           \o Base64Decode(SubSeq(c, 5, Len(c)))

\* "-----BEGIN -----\n" and "-----END -----\n": a PEM block without type
PemBegin == <<45, 45, 45, 45, 45, 66, 69, 71, 73, 78, 32, 45, 45, 45, 45, 45, 10>>
PemEnd == <<45, 45, 45, 45, 45, 69, 78, 68, 32, 45, 45, 45, 45, 45, 10>>

\* pem.EncodeToMemory(&pem.Block{Bytes: b})
PemEncode(b) ==
    PemBegin \o (IF b = <<>> THEN <<>> ELSE Base64Encode(b) \o <<10>>) \o PemEnd

StartsWith(data, i, marker) ==
    /\ i + Len(marker) - 1 <= Len(data)
    /\ SubSeq(data, i, i + Len(marker) - 1) = marker

\* positions where a line of data starts with marker
MarkerAt(data, marker) ==
    {i \in 1..Len(data) : (i = 1 \/ data[i - 1] = 10) /\ StartsWith(data, i, marker)}

Least(S) == CHOOSE x \in S : \A y \in S : x <= y

NoBlock == [found |-> FALSE, Bytes |-> <<>>]

\* the block whose base64 text runs from position b to the line before e
PemBlock(data, b, e) ==
    IF e = b THEN [found |-> TRUE, Bytes |-> <<>>]
    ELSE IF ~IsBase64(SubSeq(data, b, e - 2)) THEN NoBlock
    ELSE [found |-> TRUE, Bytes |-> Base64Decode(SubSeq(data, b, e - 2))]

PemBlockUpTo(data, b, ends) ==
    IF ends = {} THEN NoBlock ELSE PemBlock(data, b, Least(ends))

PemBlockFrom(data, b) ==
    PemBlockUpTo(data, b, {e \in MarkerAt(data, PemEnd) : e >= b})

PemBlockAfter(data, begins) ==
    IF begins = {} THEN NoBlock
    ELSE PemBlockFrom(data, Least(begins) + Len(PemBegin))

\* pem.Decode: the bytes of the first PEM block of data, found FALSE when
\* data holds no block
PemDecode(data) == PemBlockAfter(data, MarkerAt(data, PemBegin))

(***************************************************************************)
(* RSAKeyPair: construction, loading and export.                           *)
(***************************************************************************)
newRSAKeyPair(privateKey, publicKey) ==
    [held |-> TRUE,
     PrivateKey |-> privateKey,
     PublicKey |-> publicKey,
     PrivateKeyPKCS8Bytes |-> MarshalKey(privateKey),
     PublicKeyPKIXBytes |-> MarshalKey(publicKey)]

\* what a file read yields: status "ok" with the data, "error" with err, or
\* "panic"; opened counts the handles opened and left open
ReadOk(data, opened) ==
    [status |-> "ok", err |-> "", data |-> data, opened |-> opened]
ReadFailed(status, err, opened) ==
    [status |-> status, err |-> err, data |-> <<>>, opened |-> opened]

\* data.Bytes of decodePEM: a nil block panics
BlockBytes(data) ==
    IF data.found THEN ReadOk(data.Bytes, 0)
    ELSE ReadFailed("panic", "nil pointer dereference", 0)

\* decodePEM: the handle is closed by the deferred Close on every path
decodePEM(content, limit) ==
    IF content = NoFile \/ limit THEN ReadFailed("error", "open", 0)
    ELSE BlockBytes(PemDecode(content))

\* readPK12: the whole file, through a handle that is not closed
readPK12(content, limit) ==
    IF content = NoFile \/ limit THEN ReadFailed("error", "open", 0)
    ELSE ReadOk(content, 1)

AlsoOpened(d, n) == [d EXCEPT !.opened = @ + n]

\* the switch of getDataFromKeyFile on the format f that fileFormat returned
ReadAs(content, handles, f) ==
    IF f.err # "" THEN ReadFailed("error", f.err, f.opened)
    ELSE IF f.format = "PEM"
    THEN AlsoOpened(decodePEM(content, handles + f.opened >= MaxOpenFiles), f.opened)
    ELSE IF f.format = "PKCS12"
    THEN AlsoOpened(readPK12(content, handles + f.opened >= MaxOpenFiles), f.opened)
    ELSE ReadFailed("error", "unsupported format", f.opened)

\* getDataFromKeyFile, called with handles handles open
getDataFromKeyFile(content, handles) ==
    ReadAs(content, handles, fileFormat(content, handles >= MaxOpenFiles))

KeyFailed(status, err, opened) ==
    [status |-> status, err |-> err, key |-> NoKeys, opened |-> opened]

ParsedKey(k, opened) ==
    IF k.err # "" THEN KeyFailed("error", k.err, opened)
    ELSE [status |-> "ok", err |-> "", key |-> k.key, opened |-> opened]

KeyFrom(d, kind) ==
    IF d.status # "ok" THEN KeyFailed(d.status, d.err, d.opened)
    ELSE ParsedKey(IF kind = "private" THEN ParseX509PKCS8PrivateKey(d.data)
                                       ELSE ParseX509PKIXPublicKey(d.data),
                   d.opened)

\* getPrivateKey / getPublicKey
getKey(content, handles, kind) == KeyFrom(getDataFromKeyFile(content, handles), kind)

PairFailed(status, err, opened) ==
    [status |-> status, err |-> err, pair |-> NoKeys, opened |-> opened]

\* the end of LoadRSAKeyPair, both keys read
PairOf(priv, pub) ==
    IF pub.status # "ok"
    THEN PairFailed(pub.status, pub.err, priv.opened + pub.opened)
    ELSE [status |-> "ok", err |-> "",
          pair |-> newRSAKeyPair(priv.key, pub.key),
          opened |-> priv.opened + pub.opened]

\* LoadRSAKeyPair after getPrivateKey returned priv
\* (LoadPublicMutant: the same with the public key taken from the private
\* key and the public key file not read)
LoadPublicMutant(priv, public, handles) ==
    IF priv.status # "ok" THEN PairFailed(priv.status, priv.err, priv.opened)
    ELSE PairOf(priv, [status |-> "ok", err |-> "", opened |-> 0,
                       key |-> PublicHalf(priv.key)])
LoadPublic(priv, public, handles) ==
    IF priv.status # "ok" THEN PairFailed(priv.status, priv.err, priv.opened)
    ELSE PairOf(priv, getKey(public, handles + priv.opened, "public"))

\* LoadRSAKeyPair on the contents of the two files
LoadRSAKeyPair(private, public, handles) ==
    LoadPublic(getKey(private, handles, "private"), public, handles)

Base64Pair(priv, pub) ==
    IF priv.err # "" THEN PairFailed("error", priv.err, 0)
    ELSE IF pub.err # "" THEN PairFailed("error", pub.err, 0)
    ELSE [status |-> "ok", err |-> "",
          pair |-> newRSAKeyPair(priv.key, pub.key), opened |-> 0]

\* LoadRSAKeyPairFromBase64: the arguments go to the DER parsers as they are
LoadRSAKeyPairFromBase64(privateKeyBase64, publicKeyBase64) ==
    Base64Pair(ParseX509PKCS8PrivateKey(privateKeyBase64),
               ParseX509PKIXPublicKey(publicKeyBase64))

ExportRSAPublicKeyAsPEM(k) == PemEncode(k.PublicKeyPKIXBytes)
ExportRSAPrivateKeyAsPEM(k) == PemEncode(k.PrivateKeyPKCS8Bytes)
ExportPrivateKeyBinaryBase64(k) == Base64Encode(k.PrivateKeyPKCS8Bytes)
ExportPublicKeyBinaryBase64(k) == Base64Encode(k.PublicKeyPKIXBytes)


(***************************************************************************)
(* SpecFiles: key pairs are generated, exported to the two key files,      *)
(* key files are installed by the operator, and key pairs are loaded.      *)
(***************************************************************************)
PrivatePath == "private.key"
PublicPath == "public.key"

\* the key NewRSAKeyPair generates, and a 1536-bit key of the operator's
GeneratedKey == PrivateKeyOf(1, bitSize)
OperatorKey == PrivateKeyOf(3, 1536)
ECKey == [kind |-> "private", alg |-> AlgEC, id |-> 2, bits |-> 2048]

\* key files an operator installs: DER and PEM files of the two keys, a PEM
\* file of an EC key, a file of dashes without PEM block, a 3-byte file
InstallableFiles(path) ==
    IF path = PrivatePath
    THEN { MarshalKey(GeneratedKey), PemEncode(MarshalKey(GeneratedKey)),
           MarshalKey(OperatorKey), PemEncode(MarshalKey(OperatorKey)),
           PemEncode(MarshalKey(ECKey)), <<45, 45, 45, 45, 45, 10>> }
    ELSE { MarshalKey(PublicHalf(GeneratedKey)),
           PemEncode(MarshalKey(PublicHalf(GeneratedKey))),
           MarshalKey(PublicHalf(OperatorKey)),
           PemEncode(MarshalKey(PublicHalf(OperatorKey))),
           <<48, 130, 1>> }

InstallKeyFile(path, content) ==
    /\ files[path] # content
    /\ files' = [files EXCEPT ![path] = content]
    /\ UNCHANGED <<now, token, openHandles, keys, input, last>>

NewRSAKeyPair ==
    /\ keys' = newRSAKeyPair(GeneratedKey, PublicHalf(GeneratedKey))
    /\ last' = [op |-> "NewRSAKeyPair", status |-> "ok"]
    /\ UNCHANGED <<now, token, files, openHandles, input>>

\* ExportRSAPublicKeyBinaryFile / ExportRSAPrivateKeyBinaryFile: os.Create,
\* deferred Close, binary.Write.  fail: which of the two calls fails, if any.
ExportBinaryFile(op, path, bytes, fail) ==
    /\ keys.held
    /\ LET created == fail # "create" /\ openHandles < MaxOpenFiles
       IN  /\ files' = IF ~created THEN files
                       ELSE [files EXCEPT ![path] =
                                IF fail = "write" THEN <<>> ELSE bytes]
           /\ last' = [op |-> op, filePath |-> path,
                       status |-> IF created /\ fail = "none"
                                  THEN "ok" ELSE "error"]
    /\ UNCHANGED <<now, token, openHandles, keys, input>>

ExportRSAPublicKeyBinaryFile(fail) ==
    ExportBinaryFile("ExportRSAPublicKeyBinaryFile", PublicPath,
                     keys.PublicKeyPKIXBytes, fail)

ExportRSAPrivateKeyBinaryFile(fail) ==
    ExportBinaryFile("ExportRSAPrivateKeyBinaryFile", PrivatePath,
                     keys.PrivateKeyPKCS8Bytes, fail)

\* writeKeyToFile on the PEM text of the key pair
WritePEMFiles ==
    /\ keys.held
    /\ openHandles < MaxOpenFiles
    /\ files' = [files EXCEPT ![PrivatePath] = ExportRSAPrivateKeyAsPEM(keys),
                              ![PublicPath] = ExportRSAPublicKeyAsPEM(keys)]
    /\ last' = [op |-> "writeKeyToFile", status |-> "ok"]
    /\ UNCHANGED <<now, token, openHandles, keys, input>>

Loaded(r) ==
    /\ last' = [op |-> "LoadRSAKeyPair", status |-> r.status, err |-> r.err,
                before |-> openHandles]
    /\ keys' = IF r.status = "ok" THEN r.pair ELSE keys
    /\ openHandles' = openHandles + r.opened
    /\ UNCHANGED <<now, token, files, input>>

CallLoadRSAKeyPair ==
    Loaded(LoadRSAKeyPair(files[PrivatePath], files[PublicPath], openHandles))

\* what a caller passes to LoadRSAKeyPairFromBase64: the bytes of the two
\* key files, the key pair's own DER bytes, or its base64 exports
Base64Sources ==
    (IF files[PrivatePath] # NoFile /\ files[PublicPath] # NoFile
     THEN {[from |-> "files", private |-> files[PrivatePath],
            public |-> files[PublicPath]]}
     ELSE {})
    \cup
    (IF keys.held
     THEN {[from |-> "bytes", private |-> keys.PrivateKeyPKCS8Bytes,
            public |-> keys.PublicKeyPKIXBytes],
           [from |-> "base64", private |-> ExportPrivateKeyBinaryBase64(keys),
            public |-> ExportPublicKeyBinaryBase64(keys)]}
     ELSE {})

LoadedFromBase64(src, r) ==
    /\ last' = [op |-> "LoadRSAKeyPairFromBase64", status |-> r.status,
                err |-> r.err, from |-> src.from, receiver |-> keys]
    /\ keys' = IF r.status = "ok" THEN r.pair ELSE keys
    /\ UNCHANGED <<now, token, files, openHandles, input>>

CallLoadRSAKeyPairFromBase64(src) ==
    LoadedFromBase64(src, LoadRSAKeyPairFromBase64(src.private, src.public))

InitFiles == InitIdle /\ input = NoInput

NextFiles ==
    \/ \E path \in Paths : \E c \in InstallableFiles(path) : InstallKeyFile(path, c)
    \/ NewRSAKeyPair
    \/ \E fail \in {"none", "create", "write"} : ExportRSAPublicKeyBinaryFile(fail)
    \/ \E fail \in {"none", "create", "write"} : ExportRSAPrivateKeyBinaryFile(fail)
    \/ WritePEMFiles
    \/ CallLoadRSAKeyPair
    \/ \E src \in Base64Sources : CallLoadRSAKeyPairFromBase64(src)

SpecFiles == InitFiles /\ [][NextFiles]_vars


(***************************************************************************)
(* Tokens.  A claim value is absent, a string or a number (a float64 once  *)
(* decoded from JSON); a token is its header's algorithm, its claims and a *)
(* signature, which records the method, the signing key and what was       *)
(* signed (the values are defined with the shared state above).            *)
(***************************************************************************)
\* the methods that sign with an RSA key: RS (PKCS1 v1.5) and PS (PSS)
RSAMethods == {"RS256", "RS384", "RS512", "PS256", "PS384", "PS512"}

\* token.SignedString(keys.PrivateKey): the RS and PS methods sign with an
\* *rsa.PrivateKey; HS, ES and none refuse a key of that type
SignedString(method, claims, privateKey) ==
    IF method \in RSAMethods
    THEN [err |-> FALSE,
          token |-> [kind |-> "jwt", alg |-> method, claims |-> claims,
                     sig |-> [method |-> method, signer |-> privateKey.id,
                              over |-> claims]]]
    ELSE [err |-> TRUE, token |-> NoToken]

\* time.Time.Unix() of the clock reading t
Unix(t) == t \div TicksPerSecond

\* the claims GenerateToken builds: exp from one reading of the clock (at),
\* iat from a second one (later)
TokenClaims(userSubject, timeDuration, at, later) ==
    IF timeDuration > 0
    THEN MapClaims(Str(userSubject), Num(Unix(later)),
                   Num(Unix(at + timeDuration)), Absent)
    ELSE MapClaims(Str(userSubject), Absent, Absent, Absent)

\* GenerateToken, the clock reading at and then later during the call
GenerateToken(k, userSubject, timeDuration, signingMethod, at, later) ==
    SignedString(signingMethod,
                 TokenClaims(userSubject, timeDuration, at, later),
                 k.PrivateKey)

\* the signing method's Verify with keys.PublicKey as the key
SignatureVerifies(tok, publicKey) ==
    /\ tok.alg \in RSAMethods
    /\ tok.sig.method = tok.alg
    /\ tok.sig.signer = publicKey.id
    /\ tok.sig.over = tok.claims

\* MapClaims.Valid of jwt: exp, iat and nbf against the clock, each one
\* passing when the claim is absent or zero
VerifyExpiresAt(c, unixNow) == ~c.exp.has \/ c.exp.n = 0 \/ unixNow <= c.exp.n
VerifyIssuedAt(c, unixNow) == ~c.iat.has \/ c.iat.n = 0 \/ unixNow >= c.iat.n
VerifyNotBefore(c, unixNow) == ~c.nbf.has \/ c.nbf.n = 0 \/ unixNow >= c.nbf.n

ClaimsValid(c, unixNow) ==
    /\ VerifyExpiresAt(c, unixNow)
    /\ VerifyIssuedAt(c, unixNow)
    /\ VerifyNotBefore(c, unixNow)

\* jwt.Parse with keys.PublicKey as the key: token.Valid
ParseValid(k, tok, t) ==
    /\ tok.kind = "jwt"
    /\ ClaimsValid(tok.claims, Unix(t))
    /\ SignatureVerifies(tok, k.PublicKey)

\* DecodeToken
DecodeToken(k, tok, t) ==
    IF ParseValid(k, tok, t) THEN [err |-> "", claims |-> tok.claims]
    ELSE [err |-> "invalid token", claims |-> NoSignature.over]

\* GetTokenSubject after DecodeToken returned d: subjects.(string) panics on
\* a sub that is not a string
SubjectOf(d) ==
    IF d.err # "" THEN [status |-> "error", err |-> d.err, subject |-> ""]
    ELSE IF ~d.claims.sub.has
    THEN [status |-> "error", err |-> "missing subjects", subject |-> ""]
    ELSE IF d.claims.sub.type # "string"
    THEN [status |-> "panic", err |-> "interface conversion", subject |-> ""]
    ELSE [status |-> "ok", err |-> "", subject |-> d.claims.sub.s]

GetTokenSubject(k, tok, t) == SubjectOf(DecodeToken(k, tok, t))

\* VerifyTokenSubject after DecodeToken returned d: subject == claims["sub"]
\* (SubjectMatchesMutant: the same without the comparison with subject)
SubjectMatchesMutant(d, subject) ==
    IF d.err # "" THEN [ok |-> FALSE, err |-> d.err]
    ELSE IF d.claims.sub.has /\ d.claims.sub.type = "string"
    THEN [ok |-> TRUE, err |-> ""]
    ELSE [ok |-> FALSE, err |-> "incorrect sub"]
SubjectMatches(d, subject) ==
    IF d.err # "" THEN [ok |-> FALSE, err |-> d.err]
    ELSE IF d.claims.sub.has /\ d.claims.sub.type = "string"
            /\ d.claims.sub.s = subject
    THEN [ok |-> TRUE, err |-> ""]
    ELSE [ok |-> FALSE, err |-> "incorrect sub"]

VerifyTokenSubject(k, tok, subject, t) == SubjectMatches(DecodeToken(k, tok, t), subject)

(***************************************************************************)
(* Claims about key files and key pairs, checked under SpecFiles.          *)
(***************************************************************************)
RSAPrivateKeys == {GeneratedKey, OperatorKey}

\* the files ExportRSA*KeyBinaryFile write for the keys priv and pub
BinaryExportOf(priv, pub) ==
    [p \in Paths |-> IF p = PrivatePath THEN MarshalKey(priv) ELSE MarshalKey(pub)]

\* the files holding the PEM text of the keys priv and pub
PEMExportOf(priv, pub) ==
    [p \in Paths |-> IF p = PrivatePath THEN PemEncode(MarshalKey(priv))
                                        ELSE PemEncode(MarshalKey(pub))]

LoadedWithFilesOpenable ==
    /\ last.op = "LoadRSAKeyPair"
    /\ last.err # "open"

HoldsKeys(priv, pub) ==
    /\ keys.held
    /\ keys.PrivateKey = priv
    /\ keys.PublicKey = pub

\* C5: when LoadRSAKeyPair has run on files that can be opened, it did not
\* reject a classified file as "unsupported format", and if the two files are
\* the binary or the PEM export of a key pair it succeeded and holds the keys
\* of that pair.
C5_ExportedFilesLoadBack ==
    LoadedWithFilesOpenable =>
        /\ last.err # "unsupported format"
        /\ \A a \in RSAPrivateKeys : \A b \in RSAPrivateKeys :
              files \in {BinaryExportOf(a, PublicHalf(b)), PEMExportOf(a, PublicHalf(b))}
                 => last.status = "ok" /\ HoldsKeys(a, PublicHalf(b))

\* C6: LoadRSAKeyPairFromBase64 on the two base64 exports of a key pair
\* succeeds and returns a pair equal to the one that exported them.
C6_Base64ExportsLoadBack ==
    (last.op = "LoadRSAKeyPairFromBase64" /\ last.from = "base64")
        => last.status = "ok" /\ keys = last.receiver

\* C9: after any sequence of load and export calls no file handle opened by
\* them is still open.
C9_NoHandleLeftOpen == openHandles = 0

SelfConsistent(k) == k.PublicKey = PublicHalf(k.PrivateKey)

\* a token the pair k signs with RS256 is accepted by DecodeToken on k
AcceptsOwnToken(k) ==
    DecodeToken(k, GenerateToken(k, "svc1", 0, "RS256", now, now).token, now).err = ""

BytesEncodeKeys(k) ==
    /\ ParseX509PKCS8PrivateKey(k.PrivateKeyPKCS8Bytes) = [err |-> "", key |-> k.PrivateKey]
    /\ ParseX509PKIXPublicKey(k.PublicKeyPKIXBytes) = [err |-> "", key |-> k.PublicKey]

\* the key a key file holds, in DER or in PEM
FileHolds(content, key) ==
    content \in {MarshalKey(key), PemEncode(MarshalKey(key))}

\* C10 as stated: every key pair held is self-consistent and accepts the
\* tokens it signs.
C10_EveryPairSelfConsistent ==
    keys.held => SelfConsistent(keys) /\ AcceptsOwnToken(keys)

\* C10: the bytes of every key pair held encode its keys; the pair accepts
\* the tokens it signs exactly when its public key is the public half of its
\* private key; that is so after NewRSAKeyPair, while a pair loaded from two
\* files holds the private key of the one file and the public key of the
\* other, whichever keys these are.
C10_PairHoldsWhatItWasGiven ==
    /\ [](keys.held =>
            /\ BytesEncodeKeys(keys)
            /\ AcceptsOwnToken(keys) <=> SelfConsistent(keys)
            /\ last.op = "NewRSAKeyPair" => SelfConsistent(keys))
    /\ [][(last'.op = "LoadRSAKeyPair" /\ last'.status = "ok" /\ files' = files)
            => /\ FileHolds(files[PrivatePath], keys'.PrivateKey)
               /\ FileHolds(files[PublicPath], keys'.PublicKey)]_vars

\* a pair loaded from the private key file of one key and the public key
\* file of another
C10_Witness ==
    /\ last.op = "LoadRSAKeyPair"
    /\ last.status = "ok"
    /\ keys.PrivateKey = GeneratedKey
    /\ keys.PublicKey = PublicHalf(OperatorKey)
    /\ ~AcceptsOwnToken(keys)


(***************************************************************************)
(* The remaining validity of a token.                                      *)
(***************************************************************************)
\* GetTokenRemainingValidity at the clock reading t (ticks), on a timestamp
\* of type timestamp.type and, when a number, of value timestamp.v seconds:
\* tm.Sub(time.Now()) is the difference in nanoseconds, held at the largest
\* Duration when it does not fit; the result is whole seconds
UnixNano(t) == NatMul(NatOfInt(t), NatDivSmall(Second, TicksPerSecond))

Sub(tmNanos, nowNanos) ==
    IF NatLeq(tmNanos, nowNanos) THEN Int64(tmNanos # nowNanos, NatSub(nowNanos, tmNanos))
    ELSE IF NatLess(MaxInt64, NatSub(tmNanos, nowNanos)) THEN Int64(FALSE, MaxInt64)
    ELSE Int64(FALSE, NatSub(tmNanos, nowNanos))

\* int(d.Seconds()) of a positive Duration
WholeSeconds(d) == NatDivSmall(NatDivSmall(NatDivSmall(d.mag, 1000), 1000), 1000)

\* (RemainingOfMutant: the same without expireOffset on the positive branch)
RemainingOfMutant(remainer) ==
    IF IsPositive(remainer) THEN WholeSeconds(remainer)
    ELSE NatOfInt(expireOffset)
RemainingOf(remainer) ==
    IF IsPositive(remainer)
    THEN NatAdd(WholeSeconds(remainer), NatOfInt(expireOffset))
    ELSE NatOfInt(expireOffset)

GetTokenRemainingValidity(timestamp, t) ==
    IF timestamp.type = "float64"
    THEN RemainingOf(Sub(NatMul(timestamp.v, Second), UnixNano(t)))
    ELSE NatOfInt(expireOffset)

(***************************************************************************)
(* SpecToken: a process that holds a key pair issues tokens while the      *)
(* clock runs, and its key pair is replaced.                               *)
(***************************************************************************)
\* the key pairs a process can hold: generated, loaded from an operator's
\* files, loaded from the private file of one key and the public of another
KeyPairs ==
    {newRSAKeyPair(GeneratedKey, PublicHalf(GeneratedKey)),
     newRSAKeyPair(OperatorKey, PublicHalf(OperatorKey)),
     newRSAKeyPair(GeneratedKey, PublicHalf(OperatorKey))}

OneHour == 3600 * TicksPerSecond

InitToken ==
    /\ now = TicksPerSecond
    /\ token = NoToken
    /\ files = [p \in Paths |-> NoFile]
    /\ openHandles = 0
    /\ keys \in KeyPairs
    /\ input = NoInput
    /\ last = Idle

Tick ==
    /\ now < MaxTicks
    /\ now' = now + 1
    /\ UNCHANGED <<token, files, openHandles, keys, input, last>>

\* jwtRsaKeys is assigned another key pair
ReplaceKeys(k) ==
    /\ keys # k
    /\ keys' = k
    /\ UNCHANGED <<now, token, files, openHandles, input, last>>

Issued(r, userSubject, timeDuration, later) ==
    /\ now' = later
    /\ token' = IF r.err THEN token ELSE r.token
    /\ last' = [op |-> "GenerateToken", err |-> r.err, subject |-> userSubject,
                d |-> timeDuration, at |-> now, later |-> later]
    /\ UNCHANGED <<files, openHandles, keys, input>>

\* GenerateToken, the clock advancing by adv between its two readings
CallGenerateToken(userSubject, timeDuration, signingMethod, adv) ==
    /\ now + adv <= MaxTicks
    /\ Issued(GenerateToken(keys, userSubject, timeDuration, signingMethod,
                            now, now + adv),
              userSubject, timeDuration, now + adv)


NextToken ==
    \/ Tick
    \/ \E k \in KeyPairs : ReplaceKeys(k)
    \/ \E s \in {"svc1", "svc2"} : \E d \in {0 - TicksPerSecond, 0, TicksPerSecond, OneHour} :
          \E m \in {"RS256", "PS512", "HS256", "ES256", "none"} :
             \E adv \in 0..MaxAdvance : CallGenerateToken(s, d, m, adv)

SpecToken == InitToken /\ [][NextToken]_vars

\* C2: the claims of the token GenerateToken has just issued are the subject
\* alone when the duration is not positive, and otherwise the subject, iat
\* and exp with iat the Unix time of one instant of the call and exp the
\* Unix time of that same instant plus the duration.
C2_ClaimsFromOneInstant ==
    (last.op = "GenerateToken" /\ ~last.err) =>
        IF last.d > 0
        THEN \E t \in last.at..last.later :
                token.claims = MapClaims(Str(last.subject), Num(Unix(t)),
                                         Num(Unix(t + last.d)), Absent)
        ELSE token.claims = MapClaims(Str(last.subject), Absent, Absent, Absent)

(***************************************************************************)
(* SpecVerify: the verification functions applied to a presented token, a  *)
(* key pair and a clock reading.                                           *)
(***************************************************************************)
Issuable(k, d) == GenerateToken(k, "svc1", d, "RS256", TicksPerSecond, TicksPerSecond).token

\* tokens of other issuers: signed by one of the two private keys or not
\* validly signed, with any of the registered claims
Forged(how, signer, claims) ==
    IF how = "tampered"
    THEN [kind |-> "jwt", alg |-> "RS256", claims |-> claims,
          sig |-> [method |-> "RS256", signer |-> signer,
                   over |-> MapClaims(Str("nobody"), Absent, Absent, Absent)]]
    ELSE [kind |-> "jwt", alg |-> how, claims |-> claims,
          sig |-> [method |-> how, signer |-> signer, over |-> claims]]

ForgedTokens ==
    {Forged(how, signer, MapClaims(sub, iat, exp, nbf)) :
        how \in {"RS256", "tampered", "HS256", "none"},
        signer \in {GeneratedKey.id, OperatorKey.id},
        sub \in {Absent, Str("svc1"), Num(123)},
        iat \in {Absent, Num(2), Num(3000)},
        exp \in {Absent, Num(0), Num(2), Num(10000)},
        nbf \in {Absent, Num(3000)}}

\* the tokens presented: issued by GenerateToken, forged, or no token at all
PresentedTokens ==
    {Issuable(k, d) : k \in KeyPairs, d \in {0, TicksPerSecond, OneHour}}
    \cup ForgedTokens \cup {Garbage}

VerifyTimes == {2 * TicksPerSecond, 2 * TicksPerSecond + 1, OneHour + 5 * TicksPerSecond}

InitVerify ==
    /\ now \in VerifyTimes
    /\ token = NoToken
    /\ files = [p \in Paths |-> NoFile]
    /\ openHandles = 0
    /\ keys \in KeyPairs
    /\ input \in [for : {"verify"}, token : PresentedTokens, subject : {"svc1", "svc2"}]
    /\ last = Idle

\* the result of the call f on the presented token, recorded
Called(f, r) ==
    /\ last = Idle
    /\ last' = [op |-> f, result |-> r]
    /\ UNCHANGED <<now, token, files, openHandles, keys, input>>

CallVerifyTokenSubject ==
    Called("VerifyTokenSubject",
           VerifyTokenSubject(keys, input.token, input.subject, now))

CallGetTokenSubject ==
    Called("GetTokenSubject", GetTokenSubject(keys, input.token, now))

CallDecodeToken ==
    Called("DecodeToken", DecodeToken(keys, input.token, now))

NextVerify ==
    \/ CallVerifyTokenSubject
    \/ CallGetTokenSubject
    \/ CallDecodeToken

SpecVerify == InitVerify /\ [][NextVerify]_vars

\* what the claims say, read off the presented token
SignedBy(tok, k) ==
    /\ tok.kind = "jwt"
    /\ tok.alg \in RSAMethods
    /\ tok.sig = [method |-> tok.alg, signer |-> k.PublicKey.id, over |-> tok.claims]

NotExpired(tok) == ~tok.claims.exp.has \/ Unix(now) <= tok.claims.exp.n

TimeClaimPassed(c) == ~c.has \/ c.n = 0 \/ c.n <= Unix(now)

SubIs(tok, subject) == tok.claims.sub = Str(subject)

IssuedBy(k, tok) == tok \in {Issuable(k, d) : d \in {0, TicksPerSecond, OneHour}}

\* C1 as stated: VerifyTokenSubject returns (true, nil) exactly when the
\* signature verifies under the public key, the token has not expired and
\* its sub is the subject; a token the key pair issued for svc1 for an hour
\* is accepted for svc1 within the hour.
C1_AcceptedExactlyWhenStated ==
    last.op = "VerifyTokenSubject" =>
        /\ (last.result.ok /\ last.result.err = "")
              <=> (SignedBy(input.token, keys) /\ NotExpired(input.token)
                   /\ SubIs(input.token, input.subject))
        /\ (input.token = Issuable(keys, OneHour) /\ now < OneHour
            /\ input.subject = "svc1") => last.result.ok

\* C1: VerifyTokenSubject returns (true, nil) exactly when the signature
\* verifies under the public key with an RS or PS method, exp is absent, zero
\* or not before the clock's second, iat and nbf are each absent, zero or not
\* after it, and sub is the subject; otherwise it returns false with an
\* error.  A token issued for svc1 by a key pair whose public key is the
\* public half of its private key is accepted by that pair for svc1 until
\* its exp and rejected for svc2, and it is rejected by a pair with another
\* public key.
C1_AcceptedExactlyWhenValid ==
    last.op = "VerifyTokenSubject" =>
        /\ last.result.ok <=>
              /\ SignedBy(input.token, keys)
              /\ (NotExpired(input.token) \/ input.token.claims.exp.n = 0)
              /\ TimeClaimPassed(input.token.claims.iat)
              /\ TimeClaimPassed(input.token.claims.nbf)
              /\ SubIs(input.token, input.subject)
        /\ last.result.ok <=> last.result.err = ""
        /\ (IssuedBy(keys, input.token) /\ SelfConsistent(keys))
              => (last.result.ok <=> (input.subject = "svc1" /\ NotExpired(input.token)))
        /\ \A k \in KeyPairs :
              (IssuedBy(k, input.token) /\ PublicHalf(k.PrivateKey) # keys.PublicKey)
                 => ~last.result.ok

\* the one-hour token of a consistent pair, accepted by it for svc1
C1_Witness ==
    /\ last.op = "VerifyTokenSubject"
    /\ last.result.ok
    /\ SelfConsistent(keys)
    /\ input.token = Issuable(keys, OneHour)
    /\ input.subject = "svc1"

\* C8: GetTokenSubject returns the sub claim when it is a string, the
\* verification error when the token does not verify, and otherwise an error
\* saying the subject is missing; it never panics.
C8_SubjectOrError ==
    last.op = "GetTokenSubject" =>
        /\ last.result.status # "panic"
        /\ IF DecodeToken(keys, input.token, now).err # ""
           THEN last.result.status = "error" /\ last.result.err = "invalid token"
           ELSE IF input.token.claims.sub.has /\ input.token.claims.sub.type = "string"
           THEN last.result.status = "ok" /\ last.result.subject = input.token.claims.sub.s
           ELSE last.result.status = "error" /\ last.result.err = "missing subjects"

(***************************************************************************)
(* SpecValidity: GetTokenRemainingValidity applied to a timestamp and a    *)
(* clock reading.                                                          *)
(***************************************************************************)

\* timestamps: of three types, seconds around the clock's range, around the
\* largest Duration ahead of it, and 2^62; or none
Timestamps ==
    [type : {"float64", "int64", "string"},
     v : {NatOfInt(n) : n \in 0..(MaxTicks \div TicksPerSecond + 2)}
         \cup {NatAdd(WholeSeconds(Int64(FALSE, MaxInt64)), NatOfInt(n)) :
                  n \in 0..(MaxTicks \div TicksPerSecond + 2)}
         \cup {NatDivSmall(Two63, 2)}]
    \cup {[type |-> "missing", v |-> <<>>]}

InitValidity ==
    /\ now \in 0..MaxTicks
    /\ token = NoToken
    /\ files = [p \in Paths |-> NoFile]
    /\ openHandles = 0
    /\ keys = NoKeys
    /\ input \in [for : {"validity"}, timestamp : Timestamps]
    /\ last = Idle

CallGetTokenRemainingValidity ==
    /\ last = Idle
    /\ last' = [op |-> "GetTokenRemainingValidity",
                result |-> GetTokenRemainingValidity(input.timestamp, now)]
    /\ UNCHANGED <<now, token, files, openHandles, keys, input>>

NextValidity == CallGetTokenRemainingValidity

SpecValidity == InitValidity /\ [][NextValidity]_vars

\* whole seconds from the clock reading to second v, 0 when v is not after it
SecondsUntil(v) ==
    IF NatLeq(NatMulSmall(v, TicksPerSecond), NatOfInt(now)) THEN <<>>
    ELSE NatDivSmall(NatSub(NatMulSmall(v, TicksPerSecond), NatOfInt(now)), TicksPerSecond)

NatMin(a, b) == IF NatLess(a, b) THEN a ELSE b

IsNumeric(timestamp) == timestamp.type \in {"float64", "int64"}

CapSeconds == NatAdd(NatMul(NatOfInt(92233), NatOfInt(100000)), NatOfInt(72036))

=============================================================================
